---- MODULE Spec2Model ----
(***************************************************************************)
(* A model of uperm (src/uperm.h) and of its demonstration program         *)
(* (src/example.cc).                                                       *)
(*                                                                         *)
(*   Spec         get_all_unique_permutations<N,L>() followed by main's    *)
(*                loop that executes every returned list on A = 0..N-1     *)
(*   CounterSpec  the constexpr counting functions, run loop by loop with  *)
(*                an explicit call stack (size_t arithmetic wraps)         *)
(*   ExecSpec     execute_permutations on arbitrary index pairs            *)
(*                                                                         *)
(* size_t is modelled as an unsigned word of SizeBits bits: every size_t   *)
(* operation is taken modulo Modulus, and an int converted to size_t is    *)
(* reduced modulo Modulus as the usual arithmetic conversions do.          *)
(***************************************************************************)
EXTENDS Integers, Sequences, FiniteSets, TLC

\* ------------------------------------------------------------------ bounds
\* width of size_t in the model
SizeBits == 11
\* template parameter N of get_all_unique_permutations ranges over 1..MaxN
MaxN == 4
\* template parameter L ranges over 0..N+ExtraL (so that L > N-1 is covered)
ExtraL == 2
\* the counting functions are called with N in 0..MaxCN
MaxCN == 6
\* execute_permutations is called with lists of at most MaxXL pairs
MaxXL == 2
\* ... on collections of 1..MaxXN elements
MaxXN == 3

VARIABLES
  \* get_all_unique_permutations and main
  N, L, pc, stack, TMP, OUT, ELEMENT, written, oobWrites, loopIters,
  K, results,
  \* the counting functions
  cfn, cN, cL, cMIN, cstack, cret, cpc,
  \* execute_permutations on its own
  xPLIST, xIN, xres, xpc

evars == <<N, L, pc, stack, TMP, OUT, ELEMENT, written, oobWrites, loopIters,
           K, results>>
cvars == <<cfn, cN, cL, cMIN, cstack, cret, cpc>>
xvars == <<xPLIST, xIN, xres, xpc>>
vars == <<evars, cvars, xvars>>

\* ------------------------------------------------------- size_t arithmetic
Modulus == 2 ^ SizeBits

\* conversion of an int to size_t
ToSizeT(x) == IF x < 0 THEN x + Modulus ELSE x % Modulus

Add(a, b) == (a + b) % Modulus
Sub(a, b) == ToSizeT(a - b)
Mul(a, b) == (a * b) % Modulus

Min(a, b) == IF b < a THEN b ELSE a

\* ------------------------------------------------------------- data types
index_permutation(f, s) == [first |-> f, second |-> s]

\* a value-initialised index_permutation (std::vector's element constructor)
ZeroPair == index_permutation(0, 0)

\* a default-initialised (never assigned) index_permutation
Indeterminate == index_permutation(-1, -1)

\* ------------------------------------------- the counting functions (pure)
\* the factor (N - I - 1) of both sums
FactorOffByOne(n, i) == Sub(n, i)
Factor(n, i) == Sub(Sub(n, i), 1)

\* first value of I in num_unique_permutations_ge_min's loop
GeMinFirstI(min) == Add(min, 1)

\* the `MIN > N-2` guard of num_unique_permutations_ge_min
GeMinGuard(n, min) == min > Sub(n, 2)

\* the `L > N - 1` guard of num_unique_permutations
LevelGuard(n, l) == l > Sub(n, 1)

\* the loop condition `I <= N-2`
LoopCond(n, i) == i <= Sub(n, 2)

RECURSIVE num_unique_permutations_ge_min(_, _, _)
RECURSIVE GeMinLoop(_, _, _, _)
GeMinLoop(n, l, i, total) ==
  IF LoopCond(n, i)
    THEN GeMinLoop(n, l, Add(i, 1),
                   Add(total, Mul(Factor(n, i),
                                  num_unique_permutations_ge_min(n, l - 1, i))))
    ELSE total

num_unique_permutations_ge_min(n, l, min) ==
  IF l = 0 THEN 1
  ELSE IF GeMinGuard(n, min) THEN 0
  ELSE GeMinLoop(n, l, GeMinFirstI(min), 0)

num_unique_permutations(n, l) ==
  IF l = 0 THEN 1
  ELSE IF LevelGuard(n, l) THEN 0
  ELSE GeMinLoop(n, l, 0, 0)

num_unique_pairs_ge_min(n, min) ==
  IF Sub(n, min) > 0 /\ min <= Sub(n, 2)
    THEN Mul(Sub(n, min), Sub(Sub(n, min), 1)) \div 2
    ELSE 0

num_unique_pairs(n) ==
  IF n > 0 THEN Mul(n, Sub(n, 1)) \div 2 ELSE 0

\* ----------------------------------------------------- execute_permutations
\* std::iter_swap on two valid positions (0-based) of a collection
iter_swap_one_way(c, a, b) == [c EXCEPT ![a + 1] = c[b + 1]]
iter_swap(c, a, b) == [c EXCEPT ![a + 1] = c[b + 1], ![b + 1] = c[a + 1]]

\* values that memory outside the collection may hold
StrayValues == {-1, 0}

\* std::iter_swap where a position is outside the collection: the valid
\* position (if any) receives whatever the outside position held
StraySwap(c, a, b, v) ==
  [i \in 1..Len(c) |-> IF i = a + 1 \/ i = b + 1 THEN v ELSE c[i]]

\* The set of outcomes of the loop of execute_permutations from pair k on.
\* No bounds check is made: a pair outside the collection is undefined
\* behaviour, which either faults or goes on with stray memory.
RECURSIVE ApplySwaps(_, _, _, _)
ApplySwaps(PLIST, k, out, oob) ==
  IF k > Len(PLIST)
    THEN {[status |-> "returned", OUT |-> out, oob |-> oob]}
    ELSE LET perm == PLIST[k]
         IN IF perm.first < Len(out) /\ perm.second < Len(out)
              THEN ApplySwaps(PLIST, k + 1,
                              iter_swap(out, perm.first, perm.second), oob)
              ELSE {[status |-> "fault", OUT |-> out, oob |-> oob]}
                   \cup UNION {ApplySwaps(PLIST, k + 1,
                                          StraySwap(out, perm.first, perm.second, v),
                                          TRUE) : v \in StrayValues}

\* T OUT = IN; the swaps; return OUT  (INPUT is the parameter IN)
execute_permutations(PLIST, INPUT) == ApplySwaps(PLIST, 1, INPUT, FALSE)

\* main's array A: A[i] = i
A(n) == [i \in 1..n |-> i - 1]

\* ------------------------------------------ get_all_unique_permutations
\* the bound of the I loops: I < std::min(N - L, N - 1), the int converted
\* to size_t for the comparison with I
LoopBoundShort(l) == Sub(ToSizeT(Min(N - l, N - 1)), 1)
LoopBound(l) == ToSizeT(Min(N - l, N - 1))

\* first value of J: size_t J = I+1
FirstJFromI(i) == i
FirstJ(i) == Add(i, 1)

\* the MIN argument of the recursive call: I+1
InnerMinSame(i) == i
InnerMin(i) == i + 1

Frame(l, x, min) == [L |-> l, X |-> x, MIN |-> min, I |-> 0, J |-> 0]

Top == stack[Len(stack)]
Pop == SubSeq(stack, 1, Len(stack) - 1)
SetTop(f) == [stack EXCEPT ![Len(stack)] = f]

\* the caller's J++ after a call of inner_permutation_loop returns
ResumeCaller ==
  LET rest == Pop
      c == rest[Len(rest)]
  IN [rest EXCEPT ![Len(rest)] = [c EXCEPT !.J = Add(c.J, 1)]]

EnumInit ==
  /\ N \in 1..MaxN
  /\ L \in 0..(N + ExtraL)
  /\ pc = "start"
  /\ stack = <<>>
  /\ TMP = <<>>
  /\ OUT = <<>>
  /\ ELEMENT = 0
  /\ written = {}
  /\ oobWrites = 0
  /\ loopIters = 0
  /\ K = 0
  /\ results = <<>>

EnumIdle ==
  /\ N = 0 /\ L = 0 /\ pc = "idle" /\ stack = <<>> /\ TMP = <<>> /\ OUT = <<>>
  /\ ELEMENT = 0 /\ written = {} /\ oobWrites = 0 /\ loopIters = 0
  /\ K = 0 /\ results = <<>>

\* OUT(num_unique_permutations(N,L)); if (L == 0) ...; TMP; ELEMENT = OUT.begin()
Allocate ==
  /\ pc = "start"
  /\ OUT' = [s \in 1..num_unique_permutations(N, L) |-> [x \in 1..L |-> ZeroPair]]
  /\ TMP' = [x \in 1..L |-> Indeterminate]
  /\ ELEMENT' = 0
  /\ stack' = IF L = 0 THEN <<>> ELSE <<Frame(L, 0, 0)>>
  /\ pc' = IF L = 0 THEN "identity" ELSE "loopI"
  /\ UNCHANGED <<N, L, written, oobWrites, loopIters, K, results>>
  /\ UNCHANGED <<cvars, xvars>>

\* OUT[0][0] = {0,0}; return OUT;   (L == 0: OUT[0] is a std::array of 0
\* elements, so element 0 is outside it unless the array has a slot)
WriteIdentity ==
  /\ pc = "identity"
  /\ IF 0 < Len(OUT) /\ 0 < Len(OUT[1])
       THEN /\ OUT' = [OUT EXCEPT ![1][1] = ZeroPair]
            /\ pc' = "returned"
            /\ UNCHANGED oobWrites
       ELSE /\ oobWrites' = oobWrites + 1
            /\ \E outcome \in {"returned", "fault"} : pc' = outcome
            /\ UNCHANGED OUT
  /\ UNCHANGED <<N, L, stack, TMP, ELEMENT, written, loopIters, K, results>>
  /\ UNCHANGED <<cvars, xvars>>

\* for (size_t I=...; I < std::min(N - L,N - 1); ...): the test holds
LoopIBody ==
  /\ pc = "loopI"
  /\ Top.I < LoopBound(Top.L)
  /\ stack' = SetTop([Top EXCEPT !.J = FirstJ(Top.I)])
  /\ loopIters' = loopIters + 1
  /\ pc' = "loopJ"
  /\ UNCHANGED <<N, L, TMP, OUT, ELEMENT, written, oobWrites, K, results>>
  /\ UNCHANGED <<cvars, xvars>>

\* the I loop of inner_permutation_loop ends: return to the caller's J loop
LoopIExit ==
  /\ pc = "loopI"
  /\ ~(Top.I < LoopBound(Top.L))
  /\ Len(stack) > 1
  /\ stack' = ResumeCaller
  /\ pc' = "loopJ"
  /\ UNCHANGED <<N, L, TMP, OUT, ELEMENT, written, oobWrites, loopIters, K, results>>
  /\ UNCHANGED <<cvars, xvars>>

\* the I loop of get_all_unique_permutations ends: return OUT
GetAllReturn ==
  /\ pc = "loopI"
  /\ ~(Top.I < LoopBound(Top.L))
  /\ Len(stack) = 1
  /\ stack' = <<>>
  /\ pc' = "returned"
  /\ UNCHANGED <<N, L, TMP, OUT, ELEMENT, written, oobWrites, loopIters, K, results>>
  /\ UNCHANGED <<cvars, xvars>>

\* for (size_t J=I+1; J < N; J++) { TMP[X] = {I,J}; inner_permutation_loop(L-1,X+1,I+1,...) }
LoopJBody ==
  /\ pc = "loopJ"
  /\ Top.J < ToSizeT(N)
  /\ TMP' = [TMP EXCEPT ![Top.X + 1] = index_permutation(Top.I, Top.J)]
  /\ stack' = Append(stack, Frame(Top.L - 1, Top.X + 1, InnerMin(Top.I)))
  /\ pc' = "enter"
  /\ UNCHANGED <<N, L, OUT, ELEMENT, written, oobWrites, loopIters, K, results>>
  /\ UNCHANGED <<cvars, xvars>>

\* the J loop ends: I++
LoopJExit ==
  /\ pc = "loopJ"
  /\ ~(Top.J < ToSizeT(N))
  /\ stack' = SetTop([Top EXCEPT !.I = Add(Top.I, 1)])
  /\ pc' = "loopI"
  /\ UNCHANGED <<N, L, TMP, OUT, ELEMENT, written, oobWrites, loopIters, K, results>>
  /\ UNCHANGED <<cvars, xvars>>

\* if (X > LMAX-1 || L < 0) { std::copy(TMP, *LIST_ELEMENT); LIST_ELEMENT++; return; }
\* A copy through a cursor at or past OUT.end() is undefined behaviour.
InnerCopy ==
  /\ pc = "enter"
  /\ (Top.X > L - 1 \/ Top.L < 0)
  /\ IF ELEMENT < Len(OUT)
       THEN /\ OUT' = [OUT EXCEPT ![ELEMENT + 1] = TMP]
            /\ written' = written \cup {ELEMENT + 1}
            /\ stack' = ResumeCaller
            /\ pc' = "loopJ"
            /\ UNCHANGED oobWrites
       ELSE /\ oobWrites' = oobWrites + 1
            /\ \E outcome \in {"loopJ", "fault"} : pc' = outcome
            /\ stack' = ResumeCaller
            /\ UNCHANGED <<OUT, written>>
  /\ ELEMENT' = ELEMENT + 1
  /\ UNCHANGED <<N, L, TMP, loopIters, K, results>>
  /\ UNCHANGED <<cvars, xvars>>

\* otherwise the I loop of inner_permutation_loop starts: size_t I=MIN
InnerBegin ==
  /\ pc = "enter"
  /\ ~(Top.X > L - 1 \/ Top.L < 0)
  /\ stack' = SetTop([Top EXCEPT !.I = ToSizeT(Top.MIN)])
  /\ pc' = "loopI"
  /\ UNCHANGED <<N, L, TMP, OUT, ELEMENT, written, oobWrites, loopIters, K, results>>
  /\ UNCHANGED <<cvars, xvars>>

\* main: for (auto const& perm : PERMS) { NEW = execute_permutations(perm,A); ... }
MainExecute ==
  /\ pc = "returned"
  /\ K < Len(OUT)
  /\ \E r \in execute_permutations(OUT[K + 1], A(N)) :
       /\ results' = Append(results, r.OUT)
       /\ pc' = IF r.status = "fault" THEN "fault" ELSE "returned"
  /\ K' = K + 1
  /\ UNCHANGED <<N, L, stack, TMP, OUT, ELEMENT, written, oobWrites, loopIters>>
  /\ UNCHANGED <<cvars, xvars>>

\* main: the loop over PERMS ends; return 0
MainReturn ==
  /\ pc = "returned"
  /\ K = Len(OUT)
  /\ pc' = "done"
  /\ UNCHANGED <<N, L, stack, TMP, OUT, ELEMENT, written, oobWrites, loopIters,
                 K, results>>
  /\ UNCHANGED <<cvars, xvars>>

Next ==
  \/ Allocate
  \/ WriteIdentity
  \/ LoopIBody
  \/ LoopIExit
  \/ GetAllReturn
  \/ LoopJBody
  \/ LoopJExit
  \/ InnerCopy
  \/ InnerBegin
  \/ MainExecute
  \/ MainReturn

CountIdle ==
  /\ cfn = "none" /\ cN = 0 /\ cL = 0 /\ cMIN = 0 /\ cstack = <<>>
  /\ cret = -1 /\ cpc = "idle"

ExecIdle ==
  /\ xPLIST = <<>> /\ xIN = <<>> /\ xres = [status |-> "none"] /\ xpc = "idle"

Init == EnumInit /\ CountIdle /\ ExecIdle

Spec == Init /\ [][Next]_vars

\* --------------------------------------- the counting functions, stepwise
\* One frame per active call; cpc is the position in the topmost call:
\*   "call"  at the function's first statement
\*   "loop"  at the test of its for loop
\*   "ret"   the topmost call has just returned cret to the frame below
CFrame(fn, n, l, min) ==
  [fn |-> fn, N |-> n, L |-> l, MIN |-> min, I |-> 0, total |-> 0]

CTop == cstack[Len(cstack)]
CPop == SubSeq(cstack, 1, Len(cstack) - 1)
CSetTop(f) == [cstack EXCEPT ![Len(cstack)] = f]

Recursive == {"num_unique_permutations", "num_unique_permutations_ge_min"}

\* arguments with N < 2, where N-1 or N-2 wraps around; with N = 0 a loop
\* runs up to Modulus-2, so the calls two levels deep start near the top
DegenerateInputs ==
  {<<fn, n, l, min>> \in
     (Recursive \cup {"num_unique_pairs", "num_unique_pairs_ge_min"})
       \X {0, 1} \X {0, 1, 2} \X {0, 1, Modulus - 3, Modulus - 2, Modulus - 1} :
     /\ (fn \in {"num_unique_permutations", "num_unique_pairs"}) => min = 0
     /\ (fn \in {"num_unique_pairs", "num_unique_pairs_ge_min"}) => l = 0
     /\ (l = 2) => (fn = "num_unique_permutations_ge_min" /\ min >= Modulus - 3)}

RegularInputs ==
  {<<fn, n, l, min>> \in
     (Recursive \cup {"num_unique_pairs", "num_unique_pairs_ge_min"})
       \X (2..MaxCN) \X (0..(MaxCN + 1)) \X (0..MaxCN) :
     /\ l <= n + 1
     /\ min <= n
     /\ (fn \in {"num_unique_permutations", "num_unique_pairs"}) => min = 0
     /\ (fn \in {"num_unique_pairs", "num_unique_pairs_ge_min"}) => l = 0}

CounterInputs == RegularInputs \cup DegenerateInputs

CountInit ==
  /\ \E inp \in CounterInputs :
       /\ cfn = inp[1] /\ cN = inp[2] /\ cL = inp[3] /\ cMIN = inp[4]
       /\ cstack = <<CFrame(inp[1], inp[2], inp[3], inp[4])>>
  /\ cret = -1
  /\ cpc = "call"

\* if (L==0) return 1;
CBaseCase ==
  /\ cpc = "call"
  /\ CTop.fn \in Recursive
  /\ CTop.L = 0
  /\ cret' = 1
  /\ cstack' = CPop
  /\ cpc' = "ret"
  /\ UNCHANGED <<cfn, cN, cL, cMIN, evars, xvars>>

\* else if (L < 0 || MIN > N-2) return 0;   resp.  else if (L > N - 1) return 0;
\* (L < 0 is never true of a size_t)
CGuard ==
  /\ cpc = "call"
  /\ CTop.fn \in Recursive
  /\ CTop.L # 0
  /\ IF CTop.fn = "num_unique_permutations"
       THEN LevelGuard(CTop.N, CTop.L)
       ELSE GeMinGuard(CTop.N, CTop.MIN)
  /\ cret' = 0
  /\ cstack' = CPop
  /\ cpc' = "ret"
  /\ UNCHANGED <<cfn, cN, cL, cMIN, evars, xvars>>

\* size_t total = 0; for (size_t I=0 resp. MIN+1; ...
CLoopBegin ==
  /\ cpc = "call"
  /\ CTop.fn \in Recursive
  /\ CTop.L # 0
  /\ ~ IF CTop.fn = "num_unique_permutations"
         THEN LevelGuard(CTop.N, CTop.L)
         ELSE GeMinGuard(CTop.N, CTop.MIN)
  /\ cstack' = CSetTop([CTop EXCEPT
                          !.total = 0,
                          !.I = IF CTop.fn = "num_unique_permutations"
                                  THEN 0 ELSE GeMinFirstI(CTop.MIN)])
  /\ cpc' = "loop"
  /\ UNCHANGED <<cfn, cN, cL, cMIN, cret, evars, xvars>>

\* I <= N-2 holds: call num_unique_permutations_ge_min(N,L-1,I)
CLoopCall ==
  /\ cpc = "loop"
  /\ LoopCond(CTop.N, CTop.I)
  /\ cstack' = Append(cstack, CFrame("num_unique_permutations_ge_min",
                                     CTop.N, CTop.L - 1, CTop.I))
  /\ cpc' = "call"
  /\ UNCHANGED <<cfn, cN, cL, cMIN, cret, evars, xvars>>

\* I <= N-2 fails: return total;
CLoopExit ==
  /\ cpc = "loop"
  /\ ~LoopCond(CTop.N, CTop.I)
  /\ cret' = CTop.total
  /\ cstack' = CPop
  /\ cpc' = "ret"
  /\ UNCHANGED <<cfn, cN, cL, cMIN, evars, xvars>>

\* total += (N-I - 1) * <the value returned>;  I++
CAccumulate ==
  /\ cpc = "ret"
  /\ cstack # <<>>
  /\ cstack' = CSetTop([CTop EXCEPT
                          !.total = Add(CTop.total, Mul(Factor(CTop.N, CTop.I), cret)),
                          !.I = Add(CTop.I, 1)])
  /\ cpc' = "loop"
  /\ UNCHANGED <<cfn, cN, cL, cMIN, cret, evars, xvars>>

\* the outermost call has returned
CReturn ==
  /\ cpc = "ret"
  /\ cstack = <<>>
  /\ cpc' = "done"
  /\ UNCHANGED <<cfn, cN, cL, cMIN, cret, cstack, evars, xvars>>

\* return ( N > 0 ) ? (N)*(N-1)/2 : 0;
CPairs ==
  /\ cpc = "call"
  /\ CTop.fn = "num_unique_pairs"
  /\ cret' = num_unique_pairs(CTop.N)
  /\ cstack' = CPop
  /\ cpc' = "ret"
  /\ UNCHANGED <<cfn, cN, cL, cMIN, evars, xvars>>

\* return (N-MIN > 0 && MIN <= N-2) ? (N-MIN)*(N-MIN-1)/2 : 0;
CPairsGeMin ==
  /\ cpc = "call"
  /\ CTop.fn = "num_unique_pairs_ge_min"
  /\ cret' = num_unique_pairs_ge_min(CTop.N, CTop.MIN)
  /\ cstack' = CPop
  /\ cpc' = "ret"
  /\ UNCHANGED <<cfn, cN, cL, cMIN, evars, xvars>>

CounterNext ==
  \/ CBaseCase
  \/ CGuard
  \/ CLoopBegin
  \/ CLoopCall
  \/ CLoopExit
  \/ CAccumulate
  \/ CReturn
  \/ CPairs
  \/ CPairsGeMin

\* A call that is not finished always takes its next step: the program is
\* sequential and nothing else runs.
CounterInit == EnumIdle /\ CountInit /\ ExecIdle

CounterSpec ==
  /\ CounterInit
  /\ [][CounterNext]_vars
  /\ WF_vars(CounterNext)

\* ------------------------------------------- execute_permutations alone
\* the index pairs a caller may pass for a collection of n elements: both
\* positions in 0..n, where n is one past the end
AnyPairs(n) == {index_permutation(f, s) : f \in 0..n, s \in 0..n}

RECURSIVE SeqsUpTo(_, _)
SeqsUpTo(S, len) ==
  IF len = 0 THEN {<<>>}
  ELSE SeqsUpTo(S, len - 1)
       \cup {Append(q, e) : q \in {r \in SeqsUpTo(S, len - 1) : Len(r) = len - 1},
                            e \in S}

ExecInit ==
  /\ \E n \in 1..MaxXN :
       /\ xIN = A(n)
       /\ xPLIST \in SeqsUpTo(AnyPairs(n), MaxXL)
  /\ xres = [status |-> "none"]
  /\ xpc = "call"

\* T OUT = IN; for (perm : PLIST) iter_swap(...); return OUT;
Execute ==
  /\ xpc = "call"
  /\ \E r \in execute_permutations(xPLIST, xIN) :
       /\ xres' = r
       /\ xpc' = r.status
  /\ UNCHANGED <<xPLIST, xIN, evars, cvars>>

ExecNext ==
  \/ Execute

ExecSpecInit == EnumIdle /\ CountIdle /\ ExecInit

ExecSpec == ExecSpecInit /\ [][ExecNext]_vars

\* ------------------------------------------------- reference definitions
\* the index pairs i < j below n
Pairs(n) == {t \in (0..(n - 1)) \X (0..(n - 1)) : t[1] < t[2]}

\* the arrangement 0, 1, ..., n-1
Identity(n) == [i \in 1..n |-> i - 1]

\* arrangement p with the elements at positions i and j (0-based) exchanged
Transpose(p, i, j) ==
  [x \in 1..Len(p) |-> IF x = i + 1 THEN p[j + 1]
                       ELSE IF x = j + 1 THEN p[i + 1] ELSE p[x]]

\* the arrangements of 0..n-1 that some sequence of exactly l transpositions
\* (any order, repeats allowed) produces from the identity
RECURSIVE ReachExactly(_, _)
ReachExactly(n, l) ==
  IF l = 0 THEN {Identity(n)}
  ELSE {Transpose(p, t[1], t[2]) : p \in ReachExactly(n, l - 1), t \in Pairs(n)}

\* the arrangements whose minimal number of transpositions is exactly l
MinLevelExactly(n, l) ==
  ReachExactly(n, l) \ UNION {ReachExactly(n, k) : k \in 0..(l - 1)}

\* how many of main's results equal p
Produced(p) == Cardinality({k \in 1..Len(results) : results[k] = p})

ValidLevel == 1 <= L /\ L <= N - 1
Finished == pc \in {"returned", "done"}

\* ------------------------------------------------------------- claims
\* C1 (as stated): for every N >= 1 and 0 <= L <= N-1 the number of sequences
\* written through the output cursor equals num_unique_permutations(N,L), the
\* cursor never passes the end of the buffer and no slot is left unwritten.
C1_CursorCountEveryLevel ==
  (L <= N - 1) =>
    /\ ELEMENT <= Len(OUT)
    /\ Finished => /\ ELEMENT = num_unique_permutations(N, L)
                   /\ written = 1..Len(OUT)

\* C1 (amended): for 1 <= L <= N-1 the cursor writes exactly
\* num_unique_permutations(N,L) sequences, never passes the end of the buffer
\* and leaves no slot unwritten; for L = 0 the function returns before the
\* cursor exists: the buffer has num_unique_permutations(N,0) = 1 slot and no
\* sequence is written through a cursor.
C1_CursorCount ==
  /\ ValidLevel =>
       /\ ELEMENT <= Len(OUT)
       /\ oobWrites = 0
       /\ written = 1..ELEMENT
       /\ Finished => /\ ELEMENT = num_unique_permutations(N, L)
                      /\ Len(OUT) = num_unique_permutations(N, L)
                      /\ written = 1..Len(OUT)
  /\ (L = 0 /\ Finished) =>
       /\ ELEMENT = 0
       /\ written = {}
       /\ Len(OUT) = 1
       /\ num_unique_permutations(N, 0) = 1

C1_Witness ==
  pc = "done" /\ ValidLevel /\ L >= 2 /\ ELEMENT >= 6 /\ ELEMENT = Len(OUT)

\* C2: for 1 <= L <= N-1, executing the enumerated sequences on 0..N-1 gives
\* pairwise distinct collections.
C2_Uniqueness ==
  ValidLevel =>
    /\ \A a, b \in 1..Len(results) : a # b => results[a] # results[b]
    /\ pc = "done" => Len(results) = Len(OUT)

C2_Witness ==
  pc = "done" /\ ValidLevel /\ L >= 2 /\ Len(results) >= 6

\* C3 (as stated): every arrangement reachable by some sequence of exactly L
\* transpositions (any order, repeats allowed) is produced by exactly one
\* enumerated sequence.
C3_CompleteForExactlyL ==
  (pc = "done" /\ ValidLevel) =>
    \A p \in ReachExactly(N, L) : Produced(p) = 1

\* C3 (amended): every arrangement whose minimal number of transpositions is
\* exactly L is produced by exactly one enumerated sequence, and nothing else
\* is produced.
C3_CompleteForMinimalL ==
  (pc = "done" /\ ValidLevel) =>
    /\ \A p \in MinLevelExactly(N, L) : Produced(p) = 1
    /\ {results[k] : k \in 1..Len(results)} \subseteq MinLevelExactly(N, L)

C3_Witness ==
  /\ pc = "done" /\ ValidLevel /\ L >= 2
  /\ MinLevelExactly(N, L) # ReachExactly(N, L)
  /\ Len(results) = Cardinality(MinLevelExactly(N, L))

\* C5: for L > N-1 the result is empty, no iteration of the I/J loops runs
\* and nothing is written.
C5_NoIterationAboveMaxLevel ==
  (L > N - 1) =>
    /\ loopIters = 0
    /\ oobWrites = 0
    /\ written = {}
    /\ pc # "start" => Len(OUT) = 0

\* C6: L = 0 returns exactly one sequence, built without any write outside
\* that sequence's L slots, whose execution gives back the input collection.
C6_IdentityLevel ==
  (L = 0 /\ pc \in {"returned", "done", "fault"}) =>
    /\ pc # "fault"
    /\ Len(OUT) = 1
    /\ oobWrites = 0
    /\ pc = "done" => results = <<Identity(N)>>

\* C10: for 1 <= L <= N-1 every sequence written to the output has, in each
\* pair, 0 <= first < second <= N-1, and first components that strictly
\* increase along the sequence; executing it never leaves the collection.
C10_PairsOrdered ==
  ValidLevel =>
    /\ \A s \in written : \A x \in 1..L :
         /\ 0 <= OUT[s][x].first
         /\ OUT[s][x].first < OUT[s][x].second
         /\ OUT[s][x].second <= N - 1
         /\ x < L => OUT[s][x + 1].first >= OUT[s][x].first + 1
    /\ pc # "fault"

C10_Witness ==
  ValidLevel /\ L >= 2 /\ Cardinality(written) >= 2 /\ pc = "loopJ"

\* all arrangements of the elements of S
RECURSIVE Arrangements(_)
Arrangements(S) ==
  IF S = {} THEN {<<>>}
  ELSE UNION {{<<e>> \o q : q \in Arrangements(S \ {e})} : e \in S}

\* the cycle of arrangement p (as the map i -> p[i+1]) through i
RECURSIVE CycleFrom(_, _, _)
CycleFrom(p, i, seen) ==
  IF i \in seen THEN seen ELSE CycleFrom(p, p[i + 1], seen \cup {i})

NumCycles(p) == Cardinality({CycleFrom(p, i, {}) : i \in 0..(Len(p) - 1)})

\* CycleTable[n][c]: how many arrangements of 0..n-1 have exactly c cycles
CycleTable ==
  [n \in 1..MaxCN |->
     [c \in 0..n |->
        Cardinality({p \in Arrangements(0..(n - 1)) : NumCycles(p) = c})]]

RECURSIVE Factorial(_)
Factorial(n) == IF n = 0 THEN 1 ELSE n * Factorial(n - 1)

RECURSIVE SumTo(_, _)
SumTo(f, k) == IF k < 0 THEN 0 ELSE f[k] + SumTo(f, k - 1)

\* the number of sequences of l pairs (first < second < n) whose first
\* components strictly increase and whose first pair has first >= min
RECURSIVE CountFromMin(_, _, _)
CountFromMin(n, l, min) ==
  IF l = 0 THEN 1
  ELSE SumTo([i \in 0..(n - 2) |->
                IF i >= min THEN (n - 1 - i) * CountFromMin(n, l - 1, i + 1)
                ELSE 0],
             n - 2)

CounterDone(fn) == cpc = "done" /\ cfn = fn

\* C4: for N >= 1 and 0 <= L <= N-1, num_unique_permutations(N,L) is the
\* number of arrangements of N elements with N-L cycles (minimal number of
\* transpositions L), so the counts over L add up to N!;
\* num_unique_permutations(4,1) = 6 and num_unique_permutations(6,5) = 120.
C4_CountIsCycleCount ==
  (CounterDone("num_unique_permutations") /\ cN >= 1 /\ cL <= cN - 1) =>
    /\ cret = CycleTable[cN][cN - cL]
    /\ SumTo([l \in 0..(cN - 1) |-> num_unique_permutations(cN, l)], cN - 1)
         = Factorial(cN)
    /\ (cN = 4 /\ cL = 1) => cret = 6
    /\ (cN = 6 /\ cL = 5) => cret = 120

C4_Witness ==
  CounterDone("num_unique_permutations") /\ cN = 4 /\ cL = 2 /\ cret = 11

\* C7: for N >= 2, num_unique_permutations_ge_min(N,L,MIN) is the number of
\* unique length-L sequences whose first transposition's lower index is >= MIN.
C7_GeMinCountsFromMin ==
  (CounterDone("num_unique_permutations_ge_min") /\ cN >= 2) =>
    cret = CountFromMin(cN, cL, cMIN)

\* What the code computes instead: the sequences whose first lower index is
\* strictly above MIN.
GeMinCountsAboveMin ==
  (CounterDone("num_unique_permutations_ge_min") /\ cN >= 2) =>
    cret = CountFromMin(cN, cL, cMIN + 1)

\* The stepwise run and the function agree wherever both are defined.
StepwiseMatchesFunction ==
  (cpc = "done" /\ cN >= 2) =>
    cret = CASE cfn = "num_unique_permutations" -> num_unique_permutations(cN, cL)
             [] cfn = "num_unique_permutations_ge_min" ->
                  num_unique_permutations_ge_min(cN, cL, cMIN)
             [] cfn = "num_unique_pairs" -> num_unique_pairs(cN)
             [] cfn = "num_unique_pairs_ge_min" -> num_unique_pairs_ge_min(cN, cMIN)

\* C8: every counting function terminates on every input, N = 0 and N = 1
\* included.
C8_CounterTerminates == <>(cpc = "done")

\* C9: a pair outside the collection ends execute_permutations in a bounds
\* error: no access outside the collection, no partially permuted result,
\* the input unchanged.
HasInvalidPair ==
  \E k \in 1..Len(xPLIST) :
    xPLIST[k].first >= Len(xIN) \/ xPLIST[k].second >= Len(xIN)

C9_BoundsError ==
  (xpc # "call" /\ HasInvalidPair) =>
    /\ xpc = "fault"
    /\ ~xres.oob
    /\ xIN = Identity(Len(xIN))

====
